---- MODULE Spec2Model ----
(***************************************************************************)
(* Model of the area-analysis pipeline of backend/main.py: one             *)
(* analyze_area request, from the geocoder call through the per-category   *)
(* Overpass queries and the POIs-only rendering to the language-model      *)
(* call and the response (or HTTP error) that reaches the caller.          *)
(*                                                                         *)
(* Fixed-point conventions.  A value that Python may leave as None is an   *)
(* option: <<>> for None, <<v>> for the number v.  Coordinates are         *)
(* integers in an angular unit chosen so that one unit of latitude is one  *)
(* decimetre on the ground (R * 3.14159/180 * unit = 0.1 m); distances are *)
(* integers in decimetres.  Every element the POI source returns with a    *)
(* longitude has the longitude of the center, so the dlon term of the      *)
(* haversine expression (line 106) is zero, a = (dlat/2)^2, and the        *)
(* computed distance is R * dlat.                                          *)
(***************************************************************************)
EXTENDS Integers, Sequences, FiniteSets, TLC

VARIABLES pc, geocode, idx, all_pois, responses, overpass_pois_data,
          pois_geojson, llm, result, calls

vars == <<pc, geocode, idx, all_pois, responses, overpass_pois_data,
          pois_geojson, llm, result, calls>>

(* ---------------------------- bounds ---------------------------------- *)

\* number of categories of the fixed list that one request queries
NumCategories == 2

\* longest elements array a POI-source reply carries
MaxElems == 1

\* longest language-model response text, in tokens
MaxTextLen == 3

(* ------------------------- basic helpers ------------------------------ *)

None == <<>>

Some(v) == <<v>>

\* Python truthiness of a coordinate value: None and 0 are both falsy
Truthy(x) == x # None /\ x[1] # 0

Abs(n) == IF n < 0 THEN -n ELSE n

Decimetres(m) == 10 * m

EmptyMap == [c \in {} |-> <<>>]

Range(s) == {s[i] : i \in 1..Len(s)}

\* all sequences over S of length lo..hi
SeqsOf(S, lo, hi) == UNION {[1..n -> S] : n \in lo..hi}

AllCategories ==
    <<"school", "hospital", "pharmacy", "supermarket", "grocery",
      "restaurant", "cafe", "bar", "pub", "bus_stop", "train_station",
      "park", "playground", "bank", "atm", "post_office">>

poi_categories == SubSeq(AllCategories, 1, NumCategories)

CategorySet == Range(poi_categories)

(* ------------------------- the geocoder ------------------------------- *)

\* centers the geocoder may resolve to: one on the equator and one at mid
\* latitude on the prime meridian
GeocodeCenters ==
    { [lat |-> 0,        lon |-> -8117000],
      [lat |-> 4447800,  lon |-> 0] }

\* what the geocoder call yields: a network/status error, an undecodable
\* body, or a decoded array with zero or one candidate (limit=1)
GeocoderReplies ==
    { [kind |-> "neterr", data |-> <<>>], [kind |-> "badjson", data |-> <<>>],
      [kind |-> "ok", data |-> <<>>] }
    \cup { [kind |-> "ok", data |-> <<g>>] : g \in GeocodeCenters }

GeocodeErrors_NoEmptyCheck(reply) ==
    IF reply.kind = "neterr" THEN {"Geocoding failed"}
    ELSE IF reply.kind = "badjson"
         THEN {"Geocoding failed", "Error decoding geocoding JSON response"}
    ELSE {}

\* the error messages get_pois_overpass may return for a geocoder reply;
\* empty when geocoding succeeds.  requests raises a JSON error that is,
\* depending on its version, a RequestException or only a JSONDecodeError.
GeocodeErrors(reply) ==
    IF reply.kind = "neterr" THEN {"Geocoding failed"}
    ELSE IF reply.kind = "badjson"
         THEN {"Geocoding failed", "Error decoding geocoding JSON response"}
    ELSE IF reply.data = <<>> THEN {"Could not geocode area/city"}
    ELSE {}

GeocodingDetails ==
    {"Geocoding failed", "Error decoding geocoding JSON response",
     "Could not geocode area/city"}

(* ------------------------- the POI source ----------------------------- *)

Node(lat, lon) ==
    [type |-> "node", lat |-> lat, lon |-> lon, center |-> <<>>,
     tags |-> [amenity |-> "yes"]]

Way(center) ==
    [type |-> "way", lat |-> None, lon |-> None, center |-> center,
     tags |-> [amenity |-> "yes", name |-> "Central"]]

\* offsets north of the center, in decimetres: the center itself, 999.6 m,
\* exactly 1000 m, 1000.1 m and 1200 m
NodeOffsets == {0, 9996, 10000, 10001, 12000}

\* the elements a reply may carry around center g: nodes on the center's
\* meridian, a node without longitude, a way whose centroid lies 999 m
\* north of the center, and a way without a centroid
Elements(g) ==
    { Node(Some(g.lat + o), Some(g.lon)) : o \in NodeOffsets }
    \cup { Node(Some(g.lat + 9990), None) }
    \cup { Way(<<[lat |-> Some(g.lat + 9990), lon |-> Some(g.lon)]>>),
           Way(<<>>) }

FailureKinds == {"neterr", "badstatus", "malformed"}

OverpassReplies(g) ==
    { [status |-> k, elements |-> <<>>] : k \in FailureKinds }
    \cup { [status |-> "ok", elements |-> es] :
              es \in SeqsOf(Elements(g), 0, MaxElems) }

\* lines 94-98: a node carries its coordinates, a way or relation those of
\* its center (an absent center reads as {} and yields None, None)
Coordinates(element) ==
    IF element.type = "node" THEN <<element.lat, element.lon>>
    ELSE IF element.center = <<>> THEN <<None, None>>
    ELSE <<element.center[1].lat, element.center[1].lon>>

\* lines 103-108, in decimetres (see the conventions above)
Distance(lat, lon, geocode_lat, geocode_lon) ==
    Abs(lat - geocode_lat)

WithinRadius_Strict(distance) == distance < Decimetres(1000)

\* line 111
WithinRadius(distance) == distance <= Decimetres(1000)

\* line 116: Python's round(), nearest integer with ties to even
Round(distance) ==
    LET q == distance \div 10
        r == distance % 10
    IN  IF r < 5 THEN q
        ELSE IF r > 5 THEN q + 1
        ELSE IF q % 2 = 0 THEN q ELSE q + 1

\* line 100
KeepsElement(lat, lon) == Truthy(lat) /\ Truthy(lon)

\* lines 91-117: the POIs of one reply, in the provider's order
RECURSIVE ExtractPois(_, _)
ExtractPois(elements, g) ==
    IF elements = <<>> THEN <<>>
    ELSE LET element == Head(elements)
             lat == Coordinates(element)[1]
             lon == Coordinates(element)[2]
             rest == ExtractPois(Tail(elements), g)
         IN  IF KeepsElement(lat, lon)
                /\ WithinRadius(Distance(lat[1], lon[1], g.lat, g.lon))
             THEN << [lat |-> lat, lon |-> lon, tags |-> element.tags,
                      distance |->
                         Round(Distance(lat[1], lon[1], g.lat, g.lon))] >>
                  \o rest
             ELSE rest

StoreCategory_AbortOnFailure(pois_map, category, reply, g) ==
    IF reply.status # "ok" THEN EmptyMap
    ELSE IF ExtractPois(reply.elements, g) # <<>>
         THEN (category :> ExtractPois(reply.elements, g)) @@ pois_map
         ELSE pois_map

\* lines 85-123: the mapping after one category's query; a failed query
\* is logged and leaves the mapping as it was
StoreCategory(pois_map, category, reply, g) ==
    IF reply.status # "ok" THEN pois_map
    ELSE IF ExtractPois(reply.elements, g) # <<>>
         THEN (category :> ExtractPois(reply.elements, g)) @@ pois_map
         ELSE pois_map

NextCategory_RetryOnFailure(i, reply) ==
    IF reply.status = "ok" THEN i + 1 ELSE i

\* line 73: the for loop moves on to the next category, whatever happened
NextCategory(i, reply) == i + 1

(* --------------------------- rendering -------------------------------- *)

colors ==
    [hospital |-> "#0088FE", school |-> "#00C49F", pharmacy |-> "#FFBB28",
     restaurant |-> "#FF8042", cafe |-> "#AF19FF", bank |-> "#FF1919",
     atm |-> "#17BECF", supermarket |-> "#9467BD", grocery |-> "#D62728",
     bus_stop |-> "#2CA02C", train_station |-> "#E377C2",
     park |-> "#7F7F7F", playground |-> "#BCBD22",
     post_office |-> "#8C564B"]

ColorOf(category) ==
    IF category \in DOMAIN colors THEN colors[category] ELSE "#000000"

PointFeature(category, poi) ==
    [type |-> "Feature",
     geometry |-> [type |-> "Point",
                   coordinates |-> <<poi.lon[1], poi.lat[1]>>],
     properties |-> [type |-> "poi", category |-> category,
                     name |-> IF "name" \in DOMAIN poi.tags
                              THEN poi.tags.name ELSE category,
                     color |-> ColorOf(category)]]

\* lines 317-331: the features of one category's POIs
RECURSIVE CategoryFeatures(_, _)
CategoryFeatures(category, pois) ==
    IF pois = <<>> THEN <<>>
    ELSE IF Truthy(Head(pois).lat) /\ Truthy(Head(pois).lon)
         THEN <<PointFeature(category, Head(pois))>>
              \o CategoryFeatures(category, Tail(pois))
         ELSE CategoryFeatures(category, Tail(pois))

\* lines 314-333: categories in the mapping's insertion order, which is
\* the order of the category list
RECURSIVE FeaturesFrom(_, _)
FeaturesFrom(pois_data, i) ==
    IF i > Len(poi_categories) THEN <<>>
    ELSE IF poi_categories[i] \in DOMAIN pois_data
         THEN CategoryFeatures(poi_categories[i],
                               pois_data[poi_categories[i]])
              \o FeaturesFrom(pois_data, i + 1)
         ELSE FeaturesFrom(pois_data, i + 1)

generate_pois_geojson(pois_data) ==
    [type |-> "FeatureCollection", features |-> FeaturesFrom(pois_data, 1)]

(* ------------------------ the language model -------------------------- *)

\* a response text is a sequence of tokens: the two braces, a character
\* that is no JSON ("x"), and two well-formed members of an object,
\* "ai_rating": 85 and "ai_rating": 150
MemberRating == [r85 |-> 85, r150 |-> 150]

MemberTokens == DOMAIN MemberRating

Tokens == {"{", "}", "x"} \cup MemberTokens

ModelTexts == SeqsOf(Tokens, 0, MaxTextLen)

\* str.find: the 0-based index of the first occurrence, or -1
Find(text, ch) ==
    IF \E i \in 1..Len(text) : text[i] = ch
    THEN (CHOOSE i \in 1..Len(text) :
             text[i] = ch /\ \A j \in 1..(i - 1) : text[j] # ch) - 1
    ELSE -1

\* str.rfind: the 0-based index of the last occurrence, or -1
RFind(text, ch) ==
    IF \E i \in 1..Len(text) : text[i] = ch
    THEN (CHOOSE i \in 1..Len(text) :
             text[i] = ch /\ \A j \in (i + 1)..Len(text) : text[j] # ch) - 1
    ELSE -1

\* text[a:b] for 0 <= a and 0 <= b <= len(text)
Slice(text, a, b) == IF b <= a THEN <<>> ELSE SubSeq(text, a + 1, b)

\* json.loads succeeds on an object: an opening brace, members, a closing
\* brace; on anything else (the empty string included) it raises
ValidJson(json_str) ==
    /\ Len(json_str) >= 2
    /\ json_str[1] = "{"
    /\ json_str[Len(json_str)] = "}"
    /\ \A i \in 2..(Len(json_str) - 1) : json_str[i] \in MemberTokens

\* dict.get("ai_rating", 0) on the parsed object: the last member wins
GetAiRating(members, default) ==
    IF members = <<>> THEN default
    ELSE MemberRating[members[Len(members)]]

ParseAnalysis_EmptyAsObject(text) ==
    LET json_start == Find(text, "{")
        json_end == RFind(text, "}") + 1
        json_str == IF json_start = -1 THEN <<>>
                    ELSE Slice(text, json_start, json_end)
    IN  IF json_str = <<>> THEN [ok |-> TRUE, error |-> "", members |-> <<>>]
        ELSE IF ValidJson(json_str)
             THEN [ok |-> TRUE, error |-> "",
                   members |-> SubSeq(json_str, 2, Len(json_str) - 1)]
             ELSE [ok |-> FALSE, error |-> "JSONDecodeError",
                   members |-> <<>>]

\* lines 385-392: locate the first "{" and the last "}" and parse what
\* lies between them
ParseAnalysis(text) ==
    LET json_start == Find(text, "{")
        json_end == RFind(text, "}") + 1
    IN  IF json_start = -1 \/ json_end = -1
        THEN [ok |-> FALSE, error |-> "No JSON found in the response",
              members |-> <<>>]
        ELSE LET json_str == Slice(text, json_start, json_end)
             IN  IF ValidJson(json_str)
                 THEN [ok |-> TRUE, error |-> "",
                       members |-> SubSeq(json_str, 2, Len(json_str) - 1)]
                 ELSE [ok |-> FALSE, error |-> "JSONDecodeError",
                       members |-> <<>>]

(* ------------------------- error responses ---------------------------- *)

HTTPException(status_code, detail) ==
    [kind |-> "error", status_code |-> status_code, detail |-> detail]

\* lines 407-409: any exception of the language-model stage
LlmExcept(message) == HTTPException(502, <<"LLM API Error", message>>)

\* line 356
GeocodeFailure(message) == HTTPException(500, <<message>>)

\* lines 410-412: the outer handler catches every Exception raised in the
\* body, the HTTPExceptions of lines 356 and 409 included
OuterExcept(e) == HTTPException(500, <<"Unexpected error">> \o e.detail)

\* lines 395-403; the modelled members carry no summary and no
\* pie_chart_data, which therefore take their defaults
FinalResults(analysis_results, data, geojson) ==
    [kind |-> "ok",
     summary |-> "",
     pie_chart_data |-> <<>>,
     ai_rating |-> GetAiRating(analysis_results, 0),
     geocode |-> data.geocode,
     geojson |-> geojson,
     pois |-> data.pois]

(* ---------------------------- the request ----------------------------- *)

NoData == [pending |-> TRUE]

NoGeoJson == [type |-> "none", features |-> <<>>]

Pending == [kind |-> "pending"]

NoCalls ==
    [geocoder |-> 0, overpass |-> [c \in CategorySet |-> 0], model |-> 0]

\* the center the geocoder resolved (lines 48-49)
Center == geocode[1].data[1]

Init ==
    /\ pc = "start"
    /\ geocode = <<>>
    /\ idx = 1
    /\ all_pois = EmptyMap
    /\ responses = <<>>
    /\ overpass_pois_data = NoData
    /\ pois_geojson = NoGeoJson
    /\ llm = [outcome |-> "none", text |-> <<>>]
    /\ result = Pending
    /\ calls = NoCalls

\* lines 32-49: the one geocoder call of get_pois_overpass
Geocode ==
    /\ pc = "start"
    /\ \E reply \in GeocoderReplies :
          /\ geocode' = <<reply>>
          /\ calls' = [calls EXCEPT !.geocoder = @ + 1]
          /\ IF GeocodeErrors(reply) # {}
             THEN /\ \E message \in GeocodeErrors(reply) :
                        overpass_pois_data' = [error |-> message]
                  /\ pc' = "returned"
                  /\ result' = result
             ELSE IF reply.data = <<>>
             THEN \* geocode_data[0] raises IndexError, caught at line 410
                  /\ overpass_pois_data' = overpass_pois_data
                  /\ pc' = "done"
                  /\ result' = OuterExcept(
                                 [detail |-> <<"list index out of range">>])
             ELSE /\ overpass_pois_data' = overpass_pois_data
                  /\ pc' = "pois"
                  /\ result' = result
    /\ UNCHANGED <<idx, all_pois, responses, pois_geojson, llm>>

\* lines 73-123: one iteration of the category loop
QueryCategory ==
    /\ pc = "pois"
    /\ idx <= Len(poi_categories)
    /\ \E reply \in OverpassReplies(Center) :
          /\ all_pois' = StoreCategory(all_pois, poi_categories[idx],
                                       reply, Center)
          /\ responses' = Append(responses, reply)
          /\ idx' = NextCategory(idx, reply)
    /\ calls' = [calls EXCEPT !.overpass[poi_categories[idx]] = @ + 1]
    /\ UNCHANGED <<pc, geocode, overpass_pois_data, pois_geojson, llm,
                   result>>

\* lines 125-133
ReturnPois ==
    /\ pc = "pois"
    /\ idx > Len(poi_categories)
    /\ overpass_pois_data' = [pois |-> all_pois, geocode |-> Center]
    /\ pc' = "returned"
    /\ UNCHANGED <<geocode, idx, all_pois, responses, pois_geojson, llm,
                   result, calls>>

\* lines 354-356, then 410-412
RaiseOverpassError ==
    /\ pc = "returned"
    /\ "error" \in DOMAIN overpass_pois_data
    /\ result' = OuterExcept(GeocodeFailure(overpass_pois_data.error))
    /\ pc' = "done"
    /\ UNCHANGED <<geocode, idx, all_pois, responses, overpass_pois_data,
                   pois_geojson, llm, calls>>

RenderPois_RejectEmpty ==
    /\ pc = "returned"
    /\ "error" \notin DOMAIN overpass_pois_data
    /\ IF DOMAIN overpass_pois_data.pois = {}
       THEN /\ result' = OuterExcept(GeocodeFailure("No POIs found"))
            /\ pc' = "done"
            /\ pois_geojson' = pois_geojson
       ELSE /\ pois_geojson' = generate_pois_geojson(overpass_pois_data.pois)
            /\ pc' = "llm"
            /\ result' = result
    /\ responses' = <<>>
    /\ UNCHANGED <<geocode, idx, all_pois, overpass_pois_data, llm, calls>>

\* lines 358-364: the collector's locals are gone, the POIs are rendered
RenderPois ==
    /\ pc = "returned"
    /\ "error" \notin DOMAIN overpass_pois_data
    /\ pois_geojson' = generate_pois_geojson(overpass_pois_data.pois)
    /\ responses' = <<>>
    /\ pc' = "llm"
    /\ UNCHANGED <<geocode, idx, all_pois, overpass_pois_data, llm, result,
                   calls>>

\* lines 381-412: the one language-model call and what becomes of it
CallModel ==
    /\ pc = "llm"
    /\ calls' = [calls EXCEPT !.model = @ + 1]
    /\ \/ /\ llm' = [outcome |-> "raised", text |-> <<>>]
          /\ result' = OuterExcept(LlmExcept("generate_content failed"))
       \/ \E text \in ModelTexts :
             /\ llm' = [outcome |-> "text", text |-> text]
             /\ result' =
                  IF ParseAnalysis(text).ok
                  THEN FinalResults(ParseAnalysis(text).members,
                                    overpass_pois_data, pois_geojson)
                  ELSE OuterExcept(LlmExcept(ParseAnalysis(text).error))
    /\ pc' = "done"
    /\ UNCHANGED <<geocode, idx, all_pois, responses, overpass_pois_data,
                   pois_geojson>>

Next ==
    \/ Geocode
    \/ QueryCategory
    \/ ReturnPois
    \/ RaiseOverpassError
    \/ RenderPois
    \/ CallModel

Spec == Init /\ [][Next]_vars

(* ------------- POIs-only rendering as a function of its input --------- *)

\* a POI as generate_pois_geojson may be handed one: either coordinate
\* may be missing, and either may be 0
ArbitraryPois ==
    { [lat |-> lat, lon |-> lon, tags |-> [amenity |-> "yes"],
       distance |-> 0] :
         lat \in {None, Some(0), Some(4447800)},
         lon \in {None, Some(0), Some(-8117000)} }

\* every CategorizedPOISet over the queried categories: a category is
\* absent or carries at least one POI
ArbitraryPoiSets ==
    UNION { [cs -> SeqsOf(ArbitraryPois, 1, MaxElems)] :
               cs \in SUBSET CategorySet }

InitRender ==
    /\ pc = "returned"
    /\ geocode = << [kind |-> "ok",
                     data |-> <<[lat |-> 0, lon |-> -8117000]>>] >>
    /\ idx = Len(poi_categories) + 1
    /\ \E pois_data \in ArbitraryPoiSets :
          /\ all_pois = pois_data
          /\ overpass_pois_data = [pois |-> pois_data, geocode |-> Center]
    /\ responses = <<>>
    /\ pois_geojson = NoGeoJson
    /\ llm = [outcome |-> "none", text |-> <<>>]
    /\ result = Pending
    /\ calls = [geocoder |-> 1, overpass |-> [c \in CategorySet |-> 1],
                model |-> 0]

NextRender == RenderPois

RenderSpec == InitRender /\ [][NextRender]_vars

(* ------------------------------ claims -------------------------------- *)

GeocodingSucceeded ==
    geocode # <<>> /\ geocode[1].kind = "ok" /\ geocode[1].data # <<>>

GeocodingFailed ==
    geocode # <<>>
    /\ (geocode[1].kind \in {"neterr", "badjson"} \/ geocode[1].data = <<>>)

\* no opening brace is followed later by a closing brace
NoBracePair(text) ==
    ~ \E i \in 1..Len(text) : \E j \in (i + 1)..Len(text) :
         text[i] = "{" /\ text[j] = "}"

LlmStageFailed ==
    \/ llm.outcome = "raised"
    \/ llm.outcome = "text" /\ ~ ParseAnalysis(llm.text).ok

CollectedNothing ==
    /\ "pois" \in DOMAIN overpass_pois_data
    /\ DOMAIN overpass_pois_data.pois = {}

\* C1 (as claimed): when geocoding succeeds and the language-model stage
\* fails (the call raises or its text cannot be parsed), the error that
\* reaches the caller carries status 502.
C1_LlmFailureIs502 ==
    (pc = "done" /\ GeocodingSucceeded /\ LlmStageFailed)
        => (result.kind = "error" /\ result.status_code = 502)

\* C2 (as claimed): when geocoding succeeds and the collector returns an
\* empty category set, the request ends at once with an error: the
\* language model is never invoked and no FinalResponse is returned.
C2_EmptyPoisEndRequest ==
    (CollectedNothing /\ pc # "returned")
        => (pc = "done" /\ calls.model = 0 /\ result.kind = "error")

\* C2 (amended): with an empty category set the request goes on: nothing
\* is reported before the language-model stage, the rendered collection
\* has no feature, the language model is invoked exactly once, and the
\* caller gets a FinalResponse with empty pois and no features exactly
\* when the language-model stage succeeds.
C2_EmptyPoisStillAnalysed ==
    CollectedNothing =>
        /\ pc \in {"returned", "llm"} => result = Pending
        /\ pc \in {"llm", "done"} => pois_geojson.features = <<>>
        /\ pc = "done" =>
              /\ calls.model = 1
              /\ result.kind = "ok" <=> ~ LlmStageFailed
              /\ result.kind = "ok" =>
                    /\ DOMAIN result.pois = {}
                    /\ result.geojson.features = <<>>

C2_Witness ==
    /\ pc = "done"
    /\ CollectedNothing
    /\ Len(responses) = 0
    /\ \A c \in CategorySet : calls.overpass[c] = 1
    /\ result.kind = "ok"

\* C3: after any geocoding failure (network error, undecodable body, empty
\* result array) no POI-source query and no language-model call is made,
\* and the request ends with a geocoding error of status 500.
C3_GeocodingFailureEndsRequest ==
    GeocodingFailed =>
        /\ \A c \in CategorySet : calls.overpass[c] = 0
        /\ calls.model = 0
        /\ pc \in {"returned", "done"}
        /\ pc = "done" =>
              /\ result.kind = "error"
              /\ result.status_code = 500
              /\ result.detail[Len(result.detail)] \in GeocodingDetails

C3_Witness ==
    /\ pc = "done"
    /\ geocode # <<>>
    /\ geocode[1].kind = "ok"
    /\ geocode[1].data = <<>>
    /\ result.kind = "error"

\* C4: whichever categories' queries fail, get_pois_overpass returns a
\* non-error result, the failed categories are absent from it, and every
\* other category carries exactly the POIs of its own reply (absent when
\* that reply retains none).
C4_FailedCategoriesOmitted ==
    /\ \A i \in 1..Len(responses) :
          LET category == poi_categories[i]
              own == ExtractPois(responses[i].elements, Center)
          IN  IF responses[i].status # "ok" \/ own = <<>>
              THEN category \notin DOMAIN all_pois
              ELSE category \in DOMAIN all_pois /\ all_pois[category] = own
    /\ (pc = "returned" /\ GeocodingSucceeded) =>
          /\ "error" \notin DOMAIN overpass_pois_data
          /\ overpass_pois_data.pois = all_pois
          /\ DOMAIN all_pois \subseteq
                {poi_categories[i] : i \in 1..Len(responses)}

C4_Witness ==
    /\ pc = "returned"
    /\ Len(responses) = Len(poi_categories)
    /\ responses[1].status = "ok"
    /\ poi_categories[1] \in DOMAIN all_pois
    /\ all_pois[poi_categories[1]][1].distance = 999
    /\ responses[Len(responses)].status = "malformed"

\* an element of a reply that carries a latitude and a longitude and lies
\* within 1000 m of the center
InRadiusElement(element, g) ==
    LET lat == Coordinates(element)[1]
        lon == Coordinates(element)[2]
    IN  /\ lat # None
        /\ lon # None
        /\ Distance(lat[1], lon[1], g.lat, g.lon) <= Decimetres(1000)

\* C5 (as claimed): a category is absent from the returned set only if
\* its query failed or returned no element with coordinates within 1000 m;
\* a category whose query succeeded with an in-radius element carrying a
\* latitude and a longitude (a coordinate of 0 included) is never omitted.
C5_AbsentOnlyWithoutResults ==
    \A i \in 1..Len(responses) :
       poi_categories[i] \notin DOMAIN all_pois =>
          \/ responses[i].status # "ok"
          \/ \A k \in 1..Len(responses[i].elements) :
                ~ InRadiusElement(responses[i].elements[k], Center)

\* the POIs of category c whose coordinates are those of the element
Retained(category, element) ==
    IF category \in DOMAIN all_pois
    THEN { k \in 1..Len(all_pois[category]) :
              /\ all_pois[category][k].lat = Coordinates(element)[1]
              /\ all_pois[category][k].lon = Coordinates(element)[2] }
    ELSE {}

\* C6: every retained POI lies at a computed distance of at most 1000 m
\* and stores that distance rounded to the nearest metre; an element that
\* passed the coordinate test is retained exactly when its distance is at
\* most 1000 m (1000 m itself included, 1200 m excluded, 999 m stored as
\* 999).
C6_RadiusCutoffAndRounding ==
    /\ \A category \in DOMAIN all_pois :
          \A k \in 1..Len(all_pois[category]) :
             LET poi == all_pois[category][k]
                 d == Distance(poi.lat[1], poi.lon[1],
                               Center.lat, Center.lon)
             IN  /\ d <= Decimetres(1000)
                 /\ Abs(Decimetres(poi.distance) - d) <= 5
                 /\ d = Decimetres(999) => poi.distance = 999
    /\ \A i \in 1..Len(responses) :
          \A k \in 1..Len(responses[i].elements) :
             LET element == responses[i].elements[k]
                 lat == Coordinates(element)[1]
                 lon == Coordinates(element)[2]
             IN  (responses[i].status = "ok" /\ Truthy(lat) /\ Truthy(lon))
                 => ( Retained(poi_categories[i], element) # {}
                      <=> Distance(lat[1], lon[1], Center.lat, Center.lon)
                             <= Decimetres(1000) )

C6_Witness ==
    /\ pc = "returned"
    /\ poi_categories[1] \in DOMAIN all_pois
    /\ all_pois[poi_categories[1]][1].distance = 1000
    /\ all_pois[poi_categories[1]][1].lat = Some(Center.lat + 10000)
    /\ poi_categories[2] \notin DOMAIN all_pois
    /\ responses[2].status = "ok"
    /\ Len(responses[2].elements) = 1
    /\ responses[2].elements[1].lat = Some(Center.lat + 12000)

\* the features the claim expects: one Point per POI that has both
\* coordinates, whatever their values
RECURSIVE LocatedFeatures(_, _)
LocatedFeatures(category, pois) ==
    IF pois = <<>> THEN <<>>
    ELSE IF Head(pois).lat # None /\ Head(pois).lon # None
         THEN <<PointFeature(category, Head(pois))>>
              \o LocatedFeatures(category, Tail(pois))
         ELSE LocatedFeatures(category, Tail(pois))

RECURSIVE ExpectedFeatures(_, _)
ExpectedFeatures(pois_data, i) ==
    IF i > Len(poi_categories) THEN <<>>
    ELSE IF poi_categories[i] \in DOMAIN pois_data
         THEN LocatedFeatures(poi_categories[i],
                              pois_data[poi_categories[i]])
              \o ExpectedFeatures(pois_data, i + 1)
         ELSE ExpectedFeatures(pois_data, i + 1)

\* C7 (as claimed): POIs-only rendering emits exactly one Point feature
\* for every POI that has both lat and lon (0 included), none for a POI
\* missing either, and no other feature.
C7_OneFeaturePerLocatedPoi ==
    pc = "llm" =>
       pois_geojson.features = ExpectedFeatures(overpass_pois_data.pois, 1)

\* C8: a response text without an opening brace followed later by a
\* closing brace is a fatal failure: the caller gets an error, never a
\* FinalResponse.
C8_NoBracePairIsFatal ==
    (pc = "done" /\ llm.outcome = "text" /\ NoBracePair(llm.text))
        => result.kind = "error"

C8_Witness ==
    /\ pc = "done"
    /\ llm.outcome = "text"
    /\ llm.text = <<"}", "{">>
    /\ result.kind = "error"

\* C9 (as claimed): every FinalResponse carries an ai_rating that is an
\* integer between 0 and 100.
C9_RatingInRange ==
    result.kind = "ok" => result.ai_rating \in 0..100

\* C10: within one request the geocoder, each category's query and the
\* language model are each called at most once (so nothing is repeated
\* after a failure), the queries follow the geocoder call, and the
\* language model is called only after every category has been queried.
C10_EachCallAtMostOnce ==
    /\ calls.geocoder <= 1
    /\ calls.model <= 1
    /\ \A c \in CategorySet : calls.overpass[c] <= 1
    /\ (\E c \in CategorySet : calls.overpass[c] > 0) => calls.geocoder = 1
    /\ calls.model > 0 =>
          /\ \A c \in CategorySet : calls.overpass[c] = 1
          /\ idx > Len(poi_categories)
    /\ \A i \in 1..Len(responses) : calls.overpass[poi_categories[i]] = 1

C10_Witness ==
    /\ pc = "done"
    /\ llm.outcome = "raised"
    /\ calls.geocoder = 1
    /\ calls.model = 1
    /\ \A c \in CategorySet : calls.overpass[c] = 1

====
